---------------------------- MODULE Spec2Model ----------------------------
(***************************************************************************)
(* The Account REST service: the request handlers of service/routes.py     *)
(* over the Account entity and its table.  A request is handled in one     *)
(* step: the handler reads the table, may write it, and answers with a     *)
(* status, a body and a Location header.                                   *)
(*                                                                         *)
(* service/models.py (the Account entity) and                              *)
(* service/common/error_handlers.py are not part of the sources at hand;   *)
(* the Account_* operators and the mapping of DataValidationError to a     *)
(* status follow the specification's sections 3, 4.1 and 7, and what the   *)
(* database session keeps of an instance follows section 9.                *)
(*                                                                         *)
(* Spec handles each request in one step.  SpecConcurrent handles one PUT  *)
(* and one DELETE in two steps each, Account.find and the write, in every  *)
(* interleaving.                                                           *)
(***************************************************************************)
EXTENDS Integers, Sequences, FiniteSets, TLC

VARIABLES
    accounts,     \* the account table: primary key -> row
    id_seq,       \* last value handed out by the table's primary-key sequence
    request,      \* the request line of the last request handled
    response,     \* the response to the last request handled
    written,      \* history: id -> the last successful POST or PUT of that id
                  \*          (its payload and the record it returned), kept
                  \*          while no other PUT or DELETE was sent for that id
    issued,       \* history: the ids returned by successful POSTs, in order
    deleted,      \* history: the ids whose record a DELETE removed
    putting,      \* a PUT handled step by step: its position, the id of its
                  \*          path and the instance Account.find returned
    deleting      \* a DELETE handled step by step, likewise

vars == <<accounts, id_seq, request, response, written, issued, deleted,
          putting, deleting>>

(***************************************************************************)
(* Bounds of the model.                                                    *)
(***************************************************************************)
\* at most this many accounts are created in one behaviour
MaxAccounts == 2

(***************************************************************************)
(* HTTP status codes (service.common.status).                              *)
(***************************************************************************)
HTTP_200_OK == 200
HTTP_201_CREATED == 201
HTTP_204_NO_CONTENT == 204
HTTP_400_BAD_REQUEST == 400
HTTP_404_NOT_FOUND == 404
HTTP_415_UNSUPPORTED_MEDIA_TYPE == 415
HTTP_500_INTERNAL_SERVER_ERROR == 500

(***************************************************************************)
(* JSON values and Python values.  A string is the tuple of its            *)
(* characters; None and JSON null are the same value.                      *)
(***************************************************************************)
None == [kind |-> "null"]
Str(cs) == [kind |-> "string", chars |-> cs]
Num(n) == [kind |-> "number", n |-> n]
Arr(items) == [kind |-> "array", items |-> items]
Obj(members) == [kind |-> "object", members |-> members]
Date(y, m, d) == [kind |-> "date", year |-> y, month |-> m, day |-> d]

IsStr(v) == v.kind = "string"
IsObj(v) == v.kind = "object"

\* dict.get(key): the member, or None when the key is absent
Get(data, key) ==
    IF key \in DOMAIN data.members THEN data.members[key] ELSE None

(***************************************************************************)
(* datetime.date: fromisoformat parses "YYYY-MM-DD", isoformat / str       *)
(* prints it.                                                              *)
(***************************************************************************)
DigitChars == <<"0", "1", "2", "3", "4", "5", "6", "7", "8", "9">>

IsDigit(c) == \E i \in DOMAIN DigitChars : DigitChars[i] = c

DigitVal(c) == (CHOOSE i \in DOMAIN DigitChars : DigitChars[i] = c) - 1

RECURSIVE ParseInt(_)
ParseInt(cs) ==
    IF cs = <<>> THEN 0
    ELSE ParseInt(SubSeq(cs, 1, Len(cs) - 1)) * 10 + DigitVal(cs[Len(cs)])

IsLeap(y) == (y % 4 = 0) /\ ((y % 100 # 0) \/ (y % 400 = 0))

DaysInMonth(y, m) ==
    IF m = 2 THEN (IF IsLeap(y) THEN 29 ELSE 28)
    ELSE IF m \in {4, 6, 9, 11} THEN 30 ELSE 31

\* the date a string denotes, or None when it is no ISO calendar date
\* (where date.fromisoformat raises ValueError)
fromisoformat(cs) ==
    IF /\ Len(cs) = 10
       /\ cs[5] = "-"
       /\ cs[8] = "-"
       /\ \A i \in {1, 2, 3, 4, 6, 7, 9, 10} : IsDigit(cs[i])
    THEN LET y == ParseInt(SubSeq(cs, 1, 4))
             m == ParseInt(SubSeq(cs, 6, 7))
             d == ParseInt(SubSeq(cs, 9, 10))
         IN  IF y >= 1 /\ m \in 1..12 /\ d \in 1..DaysInMonth(y, m)
             THEN Date(y, m, d)
             ELSE None
    ELSE None

RECURSIVE Pad(_, _)
Pad(n, width) ==
    IF width = 0 THEN <<>>
    ELSE Append(Pad(n \div 10, width - 1), DigitChars[(n % 10) + 1])

isoformat(d) ==
    Pad(d.year, 4) \o <<"-">> \o Pad(d.month, 2) \o <<"-">> \o Pad(d.day, 2)



(***************************************************************************)
(* The table behind the Account entity.  db is the pair of the table and   *)
(* its primary-key sequence; the operators below return the db they leave. *)
(***************************************************************************)
Database(table, seq) == [accounts |-> table, id_seq |-> seq]

Columns == {"name", "email", "address", "phone_number", "date_joined"}

RequiredFields == <<"name", "email", "address">>

\* Account(): a transient instance, nothing assigned yet
Account_new ==
    [id |-> None, name |-> None, email |-> None, address |-> None,
     phone_number |-> None, date_joined |-> None]

Row(account) == [c \in Columns |-> account[c]]

Instance(id, row) ==
    [id |-> Num(id), name |-> row.name, email |-> row.email,
     address |-> row.address, phone_number |-> row.phone_number,
     date_joined |-> row.date_joined]

\* the first required field the payload lacks, as data["name"], data["email"],
\* data["address"] are read in this order
FirstMissing(data) ==
    LET lacking == {i \in DOMAIN RequiredFields :
                        RequiredFields[i] \notin DOMAIN data.members}
    IN  RequiredFields[CHOOSE i \in lacking : \A j \in lacking : i <= j]

\* the instance after the assignments deserialize makes before it reads the
\* required field the payload lacks: the attributes are assigned one by one
\* in the order name, email, address
AssignedBefore(account, data, field) ==
    LET upto == CHOOSE i \in DOMAIN RequiredFields : RequiredFields[i] = field
        take(i, old) == IF i < upto THEN data.members[RequiredFields[i]]
                        ELSE old
    IN  [account EXCEPT !.name = take(1, @),
                        !.email = take(2, @),
                        !.address = take(3, @)]

\* Account.deserialize(data): the set of possible outcomes. A failure carries
\* the instance as the assignments made before the failure left it.
\*  - not a mapping, or a required field missing: DataValidationError;
\*  - date_joined present: it must parse as an ISO date; how a date that does
\*    not parse fails is not stated (a DataValidationError or the parser's own
\*    error), so both are outcomes;
\*  - date_joined absent: the default is left. For an instance read from the
\*    table that is either the date it has or the current date: both are
\*    outcomes.
Account_deserialize(account, data, now) ==
    IF ~IsObj(data)
    THEN {[ok |-> FALSE, error |-> "DataValidationError", missing |-> "",
           account |-> account]}
    ELSE IF \E i \in DOMAIN RequiredFields :
                RequiredFields[i] \notin DOMAIN data.members
    THEN {[ok |-> FALSE, error |-> "DataValidationError",
           missing |-> FirstMissing(data),
           account |-> AssignedBefore(account, data, FirstMissing(data))]}
    ELSE LET assigned == [account EXCEPT
                             !.name = data.members["name"],
                             !.email = data.members["email"],
                             !.address = data.members["address"],
                             !.phone_number = Get(data, "phone_number")]
         IN  IF "date_joined" \in DOMAIN data.members
             THEN LET v == data.members["date_joined"]
                      d == IF IsStr(v) THEN fromisoformat(v.chars) ELSE None
                  IN  IF d = None
                      THEN {[ok |-> FALSE, error |-> e, missing |-> "",
                             account |-> assigned] :
                                e \in {"DataValidationError", "ValueError"}}
                      ELSE {[ok |-> TRUE,
                             account |-> [assigned EXCEPT !.date_joined = d]]}
             ELSE IF account.date_joined = None
                  THEN {[ok |-> TRUE, account |-> assigned]}
                  ELSE {[ok |-> TRUE, account |-> assigned],
                        [ok |-> TRUE,
                         account |-> [assigned EXCEPT !.date_joined = now]]}

\* Account.serialize(): every attribute, date_joined in its string form
Account_serialize(account) ==
    Obj([id |-> account.id,
         name |-> account.name,
         email |-> account.email,
         address |-> account.address,
         phone_number |-> account.phone_number,
         date_joined |-> IF account.date_joined = None THEN None
                         ELSE Str(isoformat(account.date_joined))])

\* Account.create(): the table assigns the next value of its sequence as id;
\* date_joined defaults to the creation date
Account_create(db, account, now) ==
    LET id == db.id_seq + 1
        created == [account EXCEPT
                       !.id = Num(id),
                       !.date_joined = IF @ = None THEN now ELSE @]
    IN  [db |-> Database([k \in DOMAIN db.accounts \cup {id} |->
                              IF k = id THEN Row(created) ELSE db.accounts[k]],
                         id),
         account |-> created]

\* Account.update(): writes the instance's attributes to the row of its id.
\* It is an update of that row, not an insert: when the table has no row of
\* the id, no row is written
Account_update(db, account) ==
    Database([k \in DOMAIN db.accounts |->
                  IF k = account.id.n THEN Row(account) ELSE db.accounts[k]],
             db.id_seq)

\* The instance find() returns belongs to the database session of the worker
\* that handles the request, which the entity's methods share. When a request
\* ends with attributes of the instance assigned and no commit, nothing in
\* the handlers rolls the session back: either the session is discarded with
\* the request (None), or it outlives the request and holds the assigned
\* instance. An instance nothing was assigned to is not held.
Session_uncommitted(account, assigned) ==
    IF assigned THEN {None, account} ELSE {None}

\* the table as the requests of a worker see it whose session holds an
\* instance: find() returns the held instance for its id, whatever the row
\* of that id is by now, and the next commit of the worker writes it
Session_view(db, held) ==
    IF held = None THEN db
    ELSE Database([k \in DOMAIN db.accounts \cup {held.id.n} |->
                       IF k = held.id.n THEN Row(held) ELSE db.accounts[k]],
                  db.id_seq)

\* Account.delete(): removes the row of the instance's id
Account_delete(db, account) ==
    Database([k \in DOMAIN db.accounts \ {account.id.n} |-> db.accounts[k]],
             db.id_seq)

\* Account.find(by_id): the stored instance, or None
Account_find(db, by_id) ==
    IF by_id \in DOMAIN db.accounts
    THEN Instance(by_id, db.accounts[by_id])
    ELSE None

\* Account.all(): every stored instance once; the order is the storage's,
\* so each order is a possible result
Account_all(db) ==
    LET ids == DOMAIN db.accounts
        n == Cardinality(ids)
        orders == {o \in [1..n -> ids] : \A i, j \in 1..n : o[i] = o[j] => i = j}
    IN  {[i \in 1..n |-> Instance(o[i], db.accounts[o[i]])] : o \in orders}

\* the status the error handlers answer an exception with
ErrorStatus(error) ==
    IF error = "DataValidationError" THEN HTTP_400_BAD_REQUEST
    ELSE HTTP_500_INTERNAL_SERVER_ERROR


(***************************************************************************)
(* Flask: the request's JSON body, responses, abort.                       *)
(* A request is [headers, body]: headers maps header names to values, body *)
(* is the JSON value sent, or Undefined when there is no body or it is no  *)
(* JSON text.                                                              *)
(***************************************************************************)
Undefined == [kind |-> "undefined"]

JSON_TYPE == "application/json"

\* the Content-Type values whose mimetype is application/json (request.is_json)
JsonMimetypes == {JSON_TYPE, "application/json; charset=utf-8"}

Location == "Location" :> "/"

NoHeaders == <<>>

make_response(body, status, headers) ==
    [status |-> status, body |-> body, headers |-> headers]

\* abort(status): the exception's response, built by the error handlers
abort(status) == make_response(None, status, NoHeaders)

\* the response to an exception deserialize raised; a DataValidationError's
\* message names the missing attribute
ErrorResponse(failure) ==
    make_response([kind |-> "error", error |-> failure.error,
                   missing |-> failure.missing],
                  ErrorStatus(failure.error), NoHeaders)

\* an f-string message naming the account id
Message(text, acct_id) == [kind |-> "message", text |-> text, acct_id |-> acct_id]

Outcome(db, resp) == [db |-> db, response |-> resp]

\* request.get_json(): the parsed body, or a 400 when the body is no JSON
\* text. With another content type the outcome depends on the release of the
\* framework: the value None, a 400, or a 415; each is an outcome.
get_json(req) ==
    IF "Content-Type" \in DOMAIN req.headers
       /\ req.headers["Content-Type"] \in JsonMimetypes
    THEN IF req.body = Undefined
         THEN {[ok |-> FALSE, status |-> HTTP_400_BAD_REQUEST]}
         ELSE {[ok |-> TRUE, value |-> req.body]}
    ELSE {[ok |-> TRUE, value |-> None],
          [ok |-> FALSE, status |-> HTTP_400_BAD_REQUEST],
          [ok |-> FALSE, status |-> HTTP_415_UNSUPPORTED_MEDIA_TYPE]}

(***************************************************************************)
(* service/routes.py.  Each handler maps the db and the request to the set *)
(* of its possible outcomes: the db it leaves and the response.            *)
(***************************************************************************)

\* fault: "if not content_type or content_type == media_type", which lets a
\* request without the header pass
check_content_type_lenient(req, media_type) ==
    LET present == "Content-Type" \in DOMAIN req.headers
        content_type == IF present THEN req.headers["Content-Type"] ELSE ""
    IN  ~present \/ content_type = "" \/ content_type = media_type

\* check_content_type(media_type): TRUE when it returns, FALSE when it aborts
check_content_type(req, media_type) ==
    LET present == "Content-Type" \in DOMAIN req.headers
        content_type == IF present THEN req.headers["Content-Type"] ELSE ""
    IN  present /\ content_type # "" /\ content_type = media_type

\* fault: account.create() is left out, so the record is answered but not stored
create_accounts_no_create(db, req, now) ==
    IF ~check_content_type(req, JSON_TYPE)
    THEN {Outcome(db, abort(HTTP_415_UNSUPPORTED_MEDIA_TYPE))}
    ELSE UNION {
        IF ~j.ok
        THEN {Outcome(db, abort(j.status))}
        ELSE {IF ~d.ok
              THEN Outcome(db, ErrorResponse(d))
              ELSE Outcome(db, make_response(Account_serialize(d.account),
                                             HTTP_201_CREATED, Location))
              : d \in Account_deserialize(Account_new, j.value, now)}
        : j \in get_json(req)}

\* fault: account.create() is called before account.deserialize(), so a
\* rejected payload has already stored an empty record
create_accounts_create_first(db, req, now) ==
    IF ~check_content_type(req, JSON_TYPE)
    THEN {Outcome(db, abort(HTTP_415_UNSUPPORTED_MEDIA_TYPE))}
    ELSE LET c == Account_create(db, Account_new, now)
         IN  UNION {
                 IF ~j.ok
                 THEN {Outcome(c.db, abort(j.status))}
                 ELSE {IF ~d.ok
                       THEN Outcome(c.db, ErrorResponse(d))
                       ELSE Outcome(Account_update(c.db, d.account),
                                    make_response(Account_serialize(d.account),
                                                  HTTP_201_CREATED, Location))
                       : d \in Account_deserialize(c.account, j.value, now)}
                 : j \in get_json(req)}

\* fault: the id of the payload, when it has one, is kept as the new record's id
create_accounts_body_id(db, req, now) ==
    IF ~check_content_type(req, JSON_TYPE)
    THEN {Outcome(db, abort(HTTP_415_UNSUPPORTED_MEDIA_TYPE))}
    ELSE UNION {
        IF ~j.ok
        THEN {Outcome(db, abort(j.status))}
        ELSE {IF ~d.ok
              THEN Outcome(db, ErrorResponse(d))
              ELSE LET c == Account_create(db, d.account, now)
                       kept == [c.account EXCEPT !.id = j.value.members["id"]]
                   IN  IF "id" \in DOMAIN j.value.members
                       THEN Outcome(Account_update(db, kept),
                                    make_response(Account_serialize(kept),
                                                  HTTP_201_CREATED, Location))
                       ELSE Outcome(c.db,
                                    make_response(Account_serialize(c.account),
                                                  HTTP_201_CREATED, Location))
              : d \in Account_deserialize(Account_new, j.value, now)}
        : j \in get_json(req)}

\* POST /accounts
create_accounts(db, req, now) ==
    IF ~check_content_type(req, JSON_TYPE)
    THEN {Outcome(db, abort(HTTP_415_UNSUPPORTED_MEDIA_TYPE))}
    ELSE UNION {
        IF ~j.ok
        THEN {Outcome(db, abort(j.status))}
        ELSE {IF ~d.ok
              THEN Outcome(db, ErrorResponse(d))
              ELSE LET c == Account_create(db, d.account, now)
                       message == Account_serialize(c.account)
                   IN  Outcome(c.db,
                               make_response(message, HTTP_201_CREATED, Location))
              : d \in Account_deserialize(Account_new, j.value, now)}
        : j \in get_json(req)}

\* fault: the response is returned from inside the loop, after the first record
list_accounts_first_only(db) ==
    {LET acct_list == [i \in DOMAIN all \cap {1} |-> Account_serialize(all[i])]
     IN  Outcome(db, make_response(Arr(acct_list), HTTP_200_OK, Location))
     : all \in Account_all(db)}

\* GET /accounts
list_accounts(db) ==
    {LET acct_list == [i \in DOMAIN all |-> Account_serialize(all[i])]
     IN  Outcome(db, make_response(Arr(acct_list), HTTP_200_OK, Location))
     : all \in Account_all(db)}

\* fault: the first stored record is fetched, whatever id the path names
read_account_first(db, acct_id) ==
    LET stored == DOMAIN db.accounts
        first == CHOOSE k \in stored : \A other \in stored : k <= other
        account == IF acct_id \in stored THEN Account_find(db, first) ELSE None
    IN  IF account = None
        THEN {Outcome(db, make_response(Message("No account found with id", acct_id),
                                        HTTP_404_NOT_FOUND, Location))}
        ELSE {Outcome(db, make_response(Account_serialize(account),
                                        HTTP_200_OK, Location))}

\* GET /accounts/<acct_id>
read_account(db, acct_id) ==
    LET account == Account_find(db, acct_id)
    IN  IF account = None
        THEN {Outcome(db, make_response(Message("No account found with id", acct_id),
                                        HTTP_404_NOT_FOUND, Location))}
        ELSE {Outcome(db, make_response(Account_serialize(account),
                                        HTTP_200_OK, Location))}

\* fault: the id of the payload, when it has one, replaces the instance's id
upate_account_body_id(db, acct_id, req, now) ==
    LET account == Account_find(db, acct_id)
    IN  IF account = None
        THEN {Outcome(db, abort(HTTP_404_NOT_FOUND))}
        ELSE UNION {
            IF ~j.ok
            THEN {Outcome(db, abort(j.status))}
            ELSE {IF ~d.ok
                  THEN Outcome(db, ErrorResponse(d))
                  ELSE LET kept == IF "id" \in DOMAIN j.value.members
                                   THEN [d.account EXCEPT
                                            !.id = j.value.members["id"]]
                                   ELSE d.account
                       IN  Outcome(Account_update(db, kept),
                                   make_response(Account_serialize(kept),
                                                 HTTP_200_OK, Location))
                  : d \in Account_deserialize(account, j.value, now)}
            : j \in get_json(req)}

\* fault: the body is read and validated before the account is looked up
upate_account_body_first(db, acct_id, req, now) ==
    UNION {
        IF ~j.ok
        THEN {Outcome(db, abort(j.status))}
        ELSE {IF ~d.ok
              THEN Outcome(db, ErrorResponse(d))
              ELSE LET account == Account_find(db, acct_id)
                   IN  IF account = None
                       THEN Outcome(db, abort(HTTP_404_NOT_FOUND))
                       ELSE LET updated == [d.account EXCEPT
                                               !.id = account.id,
                                               !.date_joined =
                                                   IF @ = None
                                                   THEN account.date_joined
                                                   ELSE @]
                            IN  Outcome(Account_update(db, updated),
                                        make_response(Account_serialize(updated),
                                                      HTTP_200_OK, Location))
              : d \in Account_deserialize(Account_new, j.value, now)}
        : j \in get_json(req)}

\* deserialize assigns name first: it has assigned something when it fails
\* on a mapping that has a name
Assigns(data) == IsObj(data) /\ "name" \in DOMAIN data.members

\* PUT /accounts/<acct_id>, from the instance Account.find returned: the body
\* is deserialized into it and update() commits it. An outcome is the table
\* it leaves, the response, and the instance the worker's session holds
\* after it. When the row is gone by the time of update(), no row is
\* written; whether that is an error of the store (5xx) or goes unnoticed is
\* not stated, so both are outcomes.
upate_account_found(db, account, req, now) ==
    UNION {
        IF ~j.ok
        THEN {[db |-> db, response |-> abort(j.status), session |-> None]}
        ELSE UNION {
                 IF ~d.ok
                 THEN {[db |-> db, response |-> ErrorResponse(d), session |-> held] :
                           held \in Session_uncommitted(d.account, Assigns(j.value))}
                 ELSE {[db |-> Account_update(db, d.account),
                        response |-> make_response(Account_serialize(d.account),
                                                   HTTP_200_OK, Location),
                        session |-> None]}
                      \cup IF account.id.n \in DOMAIN db.accounts THEN {}
                           ELSE {[db |-> db,
                                  response |-> abort(HTTP_500_INTERNAL_SERVER_ERROR),
                                  session |-> None]}
                 : d \in Account_deserialize(account, j.value, now)}
        : j \in get_json(req)}

\* PUT /accounts/<acct_id>, handled in one step by the worker that handles
\* every request: the db it leaves is the table as its session shows it
upate_account(db, acct_id, req, now) ==
    LET account == Account_find(db, acct_id)
    IN  IF account = None
        THEN {Outcome(db, abort(HTTP_404_NOT_FOUND))}
        ELSE {Outcome(Session_view(out.db, out.session), out.response) :
                  out \in upate_account_found(db, account, req, now)}

\* fault: account.delete() is left out
delete_account_no_delete(db, acct_id) ==
    LET account == Account_find(db, acct_id)
    IN  IF account = None
        THEN {Outcome(db, make_response(Message("not found, nothing to do", acct_id),
                                        HTTP_204_NO_CONTENT, Location))}
        ELSE {Outcome(db, make_response(Message("deleted", acct_id),
                                        HTTP_204_NO_CONTENT, Location))}

\* fault: an id that is not stored is answered 404, as read and update do
delete_account_404(db, acct_id) ==
    LET account == Account_find(db, acct_id)
    IN  IF account = None
        THEN {Outcome(db, abort(HTTP_404_NOT_FOUND))}
        ELSE {Outcome(Account_delete(db, account),
                      make_response(Message("deleted", acct_id),
                                    HTTP_204_NO_CONTENT, Location))}

\* DELETE /accounts/<acct_id>, from the instance Account.find returned
delete_account_found(db, account, acct_id) ==
    {Outcome(Account_delete(db, account),
             make_response(Message("deleted", acct_id),
                           HTTP_204_NO_CONTENT, Location))}

\* DELETE /accounts/<acct_id>
delete_account(db, acct_id) ==
    LET account == Account_find(db, acct_id)
    IN  IF account = None
        THEN {Outcome(db, make_response(Message("not found, nothing to do", acct_id),
                                        HTTP_204_NO_CONTENT, Location))}
        ELSE delete_account_found(db, account, acct_id)


(***************************************************************************)
(* The requests of the model.                                              *)
(***************************************************************************)
Ann == Str(<<"A", "n", "n">>)
FooBar == Str(<<"F", "o", "o", " ", "X", ".", " ", "B", "a", "r">>)
Email == Str(<<"a", "@", "b">>)
Address == Str(<<"1", " ", "S", "t">>)
Phone == Str(<<"5", "5", "5">>)
LeapDay == Str(<<"2", "0", "2", "0", "-", "0", "2", "-", "2", "9">>)
NoSuchDay == Str(<<"2", "0", "2", "1", "-", "0", "2", "-", "2", "9">>)

\* a full record, as AccountFactory().serialize() sends it
FullRecord(name) ==
    Obj([name |-> name, email |-> Email, address |-> Address,
         phone_number |-> Phone, date_joined |-> LeapDay])

\* only the required fields
RequiredOnly == Obj([name |-> FooBar, email |-> Email, address |-> Address])

\* a record as a response carries it, id included (tests: test_update_account)
RecordWithId ==
    Obj([id |-> Num(1), name |-> FooBar, email |-> Email, address |-> Address,
         phone_number |-> Phone, date_joined |-> LeapDay])

\* the required fields and a date_joined that names no day
BadDateRecord ==
    Obj([name |-> FooBar, email |-> Email, address |-> Address,
         date_joined |-> NoSuchDay])

\* a mapping without the given keys
Without(data, keys) ==
    Obj([k \in DOMAIN data.members \ keys |-> data.members[k]])

ValidBodies == {FullRecord(Ann), RequiredOnly, RecordWithId}

IncompleteBodies ==
    {Without(FullRecord(Ann), {f}) : f \in {"name", "email", "address"}}
    \cup {Obj([name |-> Ann])}

NotMappings == {None, Arr(<<>>)}

Bodies ==
    ValidBodies \cup {BadDateRecord} \cup IncompleteBodies \cup NotMappings
    \cup {Undefined}

ContentTypes == JsonMimetypes \cup {"test/html"}

Headers == {NoHeaders} \cup {"Content-Type" :> t : t \in ContentTypes}

JsonHeaders == "Content-Type" :> JSON_TYPE

\* POST is sent with a JSON content type and any body, or with another or no
\* content type and a valid, an incomplete or no body
PostRequests ==
    [headers : {JsonHeaders}, body : Bodies]
    \cup [headers : Headers \ {JsonHeaders},
          body : {FullRecord(Ann), Without(FullRecord(Ann), {"email"}), Undefined}]

\* PUT is sent with a JSON body, or bare (tests: test_update_with_bad_date)
PutRequests ==
    [headers : {JsonHeaders}, body : Bodies]
    \cup {[headers |-> NoHeaders, body |-> Undefined]}

\* the ids a path names: 0 is never assigned
PathIds == 0..MaxAccounts

\* date.today(): the behaviours of the model run within one day
today == Date(2024, 12, 31)

(***************************************************************************)
(* The state machine.                                                      *)
(***************************************************************************)
db == Database(accounts, id_seq)

Forget(history, id) == [k \in DOMAIN history \ {id} |-> history[k]]

Record(history, id, via, req, out) ==
    [k \in DOMAIN history \cup {id} |->
        IF k = id
        THEN [via |-> via, payload |-> req.body, returned |-> out.response.body]
        ELSE history[k]]

\* the position of a request handled step by step: not yet arrived ("idle"),
\* past Account.find with the instance it returned ("found"), or answered
\* ("done"), account then being the instance the session of its worker still
\* holds; found tells whether Account.find returned an instance
Idle == [pc |-> "idle", acct_id |-> 0, account |-> None, found |-> FALSE]

Init ==
    /\ accounts = <<>>
    /\ id_seq = 0
    /\ request = [method |-> "", route |-> ""]
    /\ response = make_response(None, 0, NoHeaders)
    /\ written = <<>>
    /\ issued = <<>>
    /\ deleted = {}
    /\ putting = Idle
    /\ deleting = Idle

Served(out) ==
    /\ accounts' = out.db.accounts
    /\ id_seq' = out.db.id_seq
    /\ response' = out.response

Post ==
    \E req \in PostRequests :
        \E out \in create_accounts(db, req, today) :
            /\ out.db.id_seq <= MaxAccounts
            /\ Served(out)
            /\ request' = [method |-> "POST", route |-> "/accounts"]
            /\ IF out.response.status = HTTP_201_CREATED
               THEN LET id == out.response.body.members["id"].n
                    IN  /\ written' = Record(written, id, "POST", req, out)
                        /\ issued' = Append(issued, id)
               ELSE UNCHANGED <<written, issued>>
            /\ UNCHANGED <<deleted, putting, deleting>>

List ==
    \E out \in list_accounts(db) :
        /\ Served(out)
        /\ request' = [method |-> "GET", route |-> "/accounts"]
        /\ UNCHANGED <<written, issued, deleted, putting, deleting>>

Read ==
    \E acct_id \in PathIds :
        \E out \in read_account(db, acct_id) :
            /\ Served(out)
            /\ request' = [method |-> "GET", route |-> "/accounts/<acct_id>",
                           acct_id |-> acct_id]
            /\ UNCHANGED <<written, issued, deleted, putting, deleting>>

Put ==
    \E acct_id \in PathIds, req \in PutRequests :
        \E out \in upate_account(db, acct_id, req, today) :
            /\ Served(out)
            /\ request' = [method |-> "PUT", route |-> "/accounts/<acct_id>",
                           acct_id |-> acct_id]
            /\ written' = IF out.response.status = HTTP_200_OK
                          THEN Record(written, acct_id, "PUT", req, out)
                          ELSE Forget(written, acct_id)
            /\ UNCHANGED <<issued, deleted, putting, deleting>>

Delete ==
    \E acct_id \in PathIds :
        \E out \in delete_account(db, acct_id) :
            /\ Served(out)
            /\ request' = [method |-> "DELETE", route |-> "/accounts/<acct_id>",
                           acct_id |-> acct_id]
            /\ written' = Forget(written, acct_id)
            /\ deleted' = deleted \cup (DOMAIN accounts \ DOMAIN out.db.accounts)
            /\ UNCHANGED <<issued, putting, deleting>>

Next == Post \/ List \/ Read \/ Put \/ Delete

Spec == Init /\ [][Next]_vars

(***************************************************************************)
(* One PUT and one DELETE handled concurrently.  Nothing in the handlers   *)
(* locks: each is Account.find, then the call that writes and commits, and *)
(* the steps of the two requests interleave in any order.  The two         *)
(* requests run in two workers, each with a database session of its own;   *)
(* accounts is the table both sessions commit to.                          *)
(***************************************************************************)
RECURSIVE Created(_)
\* the stores that n successful POSTs of valid bodies leave
Created(n) ==
    IF n = 0 THEN {Database(<<>>, 0)}
    ELSE {out.db : out \in
              UNION {create_accounts(before, req, today) :
                         before \in Created(n - 1),
                         req \in [headers : {JsonHeaders}, body : ValidBodies]}}

InitConcurrent ==
    /\ \E n \in 0..MaxAccounts :
           \E before \in Created(n) :
               /\ accounts = before.accounts
               /\ id_seq = before.id_seq
               /\ issued = [i \in 1..n |-> i]
    /\ request = [method |-> "", route |-> ""]
    /\ response = make_response(None, 0, NoHeaders)
    /\ written = <<>>
    /\ deleted = {}
    /\ putting = Idle
    /\ deleting = Idle

\* PUT arrives and runs Account.find; an id that is not stored is answered 404
PutFind ==
    /\ putting.pc = "idle"
    /\ \E acct_id \in PathIds :
           LET account == Account_find(db, acct_id)
           IN  IF account = None
               THEN /\ putting' = [pc |-> "done", acct_id |-> acct_id,
                                   account |-> None, found |-> FALSE]
                    /\ request' = [method |-> "PUT",
                                   route |-> "/accounts/<acct_id>",
                                   acct_id |-> acct_id]
                    /\ response' = abort(HTTP_404_NOT_FOUND)
               ELSE /\ putting' = [pc |-> "found", acct_id |-> acct_id,
                                   account |-> account, found |-> TRUE]
                    /\ UNCHANGED <<request, response>>
    /\ UNCHANGED <<accounts, id_seq, written, issued, deleted, deleting>>

\* PUT deserializes its body into the instance it found, updates and answers;
\* putting.account becomes the instance its worker's session holds afterwards
PutUpdate ==
    /\ putting.pc = "found"
    /\ \E req \in PutRequests :
           \E out \in upate_account_found(db, putting.account, req, today) :
               /\ accounts' = out.db.accounts
               /\ id_seq' = out.db.id_seq
               /\ response' = out.response
               /\ putting' = [putting EXCEPT !.pc = "done",
                                             !.account = out.session]
    /\ request' = [method |-> "PUT", route |-> "/accounts/<acct_id>",
                   acct_id |-> putting.acct_id]
    /\ UNCHANGED <<written, issued, deleted, deleting>>

\* DELETE arrives and runs Account.find; an id that is not stored is answered
\* 204
DeleteFind ==
    /\ deleting.pc = "idle"
    /\ \E acct_id \in PathIds :
           LET account == Account_find(db, acct_id)
           IN  IF account = None
               THEN /\ deleting' = [pc |-> "done", acct_id |-> acct_id,
                                    account |-> None, found |-> FALSE]
                    /\ request' = [method |-> "DELETE",
                                   route |-> "/accounts/<acct_id>",
                                   acct_id |-> acct_id]
                    /\ response' =
                           make_response(Message("not found, nothing to do", acct_id),
                                         HTTP_204_NO_CONTENT, Location)
               ELSE /\ deleting' = [pc |-> "found", acct_id |-> acct_id,
                                    account |-> account, found |-> TRUE]
                    /\ UNCHANGED <<request, response>>
    /\ UNCHANGED <<accounts, id_seq, written, issued, deleted, putting>>

\* DELETE deletes the instance it found and answers 204
DeleteDelete ==
    /\ deleting.pc = "found"
    /\ \E out \in delete_account_found(db, deleting.account, deleting.acct_id) :
           /\ Served(out)
           /\ deleted' = deleted \cup (DOMAIN accounts \ DOMAIN out.db.accounts)
    /\ request' = [method |-> "DELETE", route |-> "/accounts/<acct_id>",
                   acct_id |-> deleting.acct_id]
    /\ deleting' = [deleting EXCEPT !.pc = "done", !.account = None]
    /\ UNCHANGED <<written, issued, putting>>

NextConcurrent == PutFind \/ PutUpdate \/ DeleteFind \/ DeleteDelete

SpecConcurrent == InitConcurrent /\ [][NextConcurrent]_vars


(***************************************************************************)
(* Properties.  A property of a handler is stated over every request of    *)
(* its case and every outcome of the handler, in every reachable state.    *)
(***************************************************************************)
Json(body) == [headers |-> JsonHeaders, body |-> body]

Range(seq) == {seq[i] : i \in DOMAIN seq}

HasRequired(body) ==
    IsObj(body) /\ \A f \in {"name", "email", "address"} : f \in DOMAIN body.members

DateOk(body) ==
    "date_joined" \in DOMAIN body.members =>
        /\ IsStr(body.members["date_joined"])
        /\ fromisoformat(body.members["date_joined"].chars) # None

IsGetOf(id) ==
    /\ request.method = "GET"
    /\ request.route = "/accounts/<acct_id>"
    /\ request.acct_id = id

\* out is a 201 with a Location header that added exactly one record, under
\* an id that was not stored before, and left the others as they were
AddsOne(out) ==
    /\ out.response.status = HTTP_201_CREATED
    /\ "Location" \in DOMAIN out.response.headers
    /\ out.response.body.members["id"].kind = "number"
    /\ LET id == out.response.body.members["id"].n
       IN  /\ id \notin DOMAIN accounts
           /\ DOMAIN out.db.accounts = DOMAIN accounts \cup {id}
           /\ \A k \in DOMAIN accounts : out.db.accounts[k] = accounts[k]

\* C1 as stated: every payload with name, email and address set, sent as
\* application/json, is answered 201 with a Location header, adds exactly one
\* record, and the response's name, email, address, phone_number and
\* date_joined equal the submitted values.
C1_AsStated ==
    \A body \in {b \in Bodies : HasRequired(b)} :
        \A out \in create_accounts(db, Json(body), today) :
            /\ AddsOne(out)
            /\ \A f \in Columns : out.response.body.members[f] = Get(body, f)

\* C1 amended: every payload with name, email and address set whose
\* date_joined is absent or a valid ISO date, sent as application/json, is
\* answered 201 with a Location header and adds exactly one record under a new
\* id; the response's name, email, address and phone_number equal the
\* submitted values (null for no phone_number) and its date_joined is the
\* submitted one, or the creation date when none was submitted.
C1_Create ==
    \A body \in {b \in Bodies : HasRequired(b) /\ DateOk(b)} :
        \A out \in create_accounts(db, Json(body), today) :
            /\ AddsOne(out)
            /\ \A f \in Columns \ {"date_joined"} :
                   out.response.body.members[f] = Get(body, f)
            /\ out.response.body.members["date_joined"] =
                   IF "date_joined" \in DOMAIN body.members
                   THEN body.members["date_joined"]
                   ELSE Str(isoformat(today))

\* a second account was just created from a payload without date_joined
C1_Witness ==
    /\ request.method = "POST"
    /\ response.status = HTTP_201_CREATED
    /\ Cardinality(DOMAIN accounts) = 2
    /\ LET id == response.body.members["id"].n
       IN  id \in DOMAIN written /\ written[id].payload = RequiredOnly

\* C2 as stated: GET of an id a POST returned, with no PUT or DELETE of that
\* id since, is answered 200 with name, email, address, phone_number and
\* date_joined equal to what that POST submitted.
C2_AsStated ==
    \A id \in DOMAIN written :
        written[id].via = "POST" =>
            \A out \in read_account(db, id) :
                /\ out.response.status = HTTP_200_OK
                /\ \A f \in Columns :
                       out.response.body.members[f] = Get(written[id].payload, f)

\* C2 amended: GET of an id a POST returned, with no PUT or DELETE of that id
\* since, is answered 200 with name, email, address and phone_number equal to
\* what that POST submitted, and date_joined equal to the submitted one, or to
\* the creation date the POST answered with when none was submitted.
C2_RoundTrip ==
    \A id \in DOMAIN written :
        written[id].via = "POST" =>
            \A out \in read_account(db, id) :
                /\ out.response.status = HTTP_200_OK
                /\ out.db = db
                /\ out.response.body.members["id"] = Num(id)
                /\ \A f \in Columns \ {"date_joined"} :
                       out.response.body.members[f] = Get(written[id].payload, f)
                /\ out.response.body.members["date_joined"] =
                       IF "date_joined" \in DOMAIN written[id].payload.members
                       THEN written[id].payload.members["date_joined"]
                       ELSE written[id].returned.members["date_joined"]

\* account 1, posted without date_joined, is read back after another account
\* was created
C2_Witness ==
    /\ IsGetOf(1)
    /\ response.status = HTTP_200_OK
    /\ 1 \in DOMAIN written
    /\ written[1].via = "POST"
    /\ written[1].payload = RequiredOnly
    /\ id_seq = 2

\* C3: GET /accounts is answered 200 with a JSON array holding exactly one
\* element per stored record (as many as were created and not deleted; empty
\* on an empty store), and leaves the store unchanged.
C3_List ==
    \A out \in list_accounts(db) :
        /\ out.response.status = HTTP_200_OK
        /\ out.response.body.kind = "array"
        /\ out.db = db
        /\ LET items == out.response.body.items
           IN  /\ Len(items) = Cardinality(DOMAIN accounts)
               /\ Len(items) = Len(issued) - Cardinality(deleted)
               /\ \A id \in DOMAIN accounts :
                      \A one \in read_account(db, id) :
                          Cardinality({i \in DOMAIN items :
                                          items[i] = one.response.body}) = 1

\* the list was answered with two accounts; and with one after a deletion
C3_Witness ==
    /\ request = [method |-> "GET", route |-> "/accounts"]
    /\ response.status = HTTP_200_OK
    /\ Len(response.body.items) = 1
    /\ deleted # {}


\* the response's record carries the payload's values for the fields the
\* payload has, under the id of the path
Reflects(record, payload, id) ==
    /\ record.kind = "object"
    /\ record.members["id"] = Num(id)
    /\ \A f \in Columns \cap DOMAIN payload.members :
           record.members[f] = payload.members[f]

\* C4: PUT of a stored id with a valid body is answered 200; the response and
\* every later GET of that id (until the next PUT or DELETE of it) carry the
\* body's field values under the id of the path, also when the body has an id
\* field; no other record changes.
C4_Update ==
    /\ \A id \in DOMAIN accounts, body \in ValidBodies :
           \A out \in upate_account(db, id, Json(body), today) :
               /\ out.response.status = HTTP_200_OK
               /\ Reflects(out.response.body, body, id)
               /\ out.db.id_seq = id_seq
               /\ DOMAIN out.db.accounts = DOMAIN accounts
               /\ \A k \in DOMAIN accounts \ {id} :
                      out.db.accounts[k] = accounts[k]
               /\ \A get \in read_account(out.db, id) :
                      /\ get.response.status = HTTP_200_OK
                      /\ get.response.body = out.response.body
    /\ \A id \in DOMAIN written :
           written[id].via = "PUT" =>
               \A get \in read_account(db, id) :
                   /\ get.response.status = HTTP_200_OK
                   /\ get.response.body = written[id].returned
                   /\ Reflects(get.response.body, written[id].payload, id)

\* account 2 is read back after a PUT whose body carried id 1 and a new name
C4_Witness ==
    /\ IsGetOf(2)
    /\ response.status = HTTP_200_OK
    /\ 2 \in DOMAIN written
    /\ written[2].via = "PUT"
    /\ written[2].payload = RecordWithId
    /\ response.body.members["name"] = FooBar
    /\ 1 \in DOMAIN accounts

\* C5: DELETE of a stored id is answered 204 and removes exactly that record:
\* the other records stay readable and unchanged, and every later GET of the
\* deleted id is answered 404, whatever requests came in between.
C5_Delete ==
    /\ \A id \in DOMAIN accounts :
           \A out \in delete_account(db, id) :
               /\ out.response.status = HTTP_204_NO_CONTENT
               /\ out.db.id_seq = id_seq
               /\ DOMAIN out.db.accounts = DOMAIN accounts \ {id}
               /\ \A k \in DOMAIN accounts \ {id} :
                      /\ out.db.accounts[k] = accounts[k]
                      /\ {get.response : get \in read_account(out.db, k)}
                             = {get.response : get \in read_account(db, k)}
                      /\ \A get \in read_account(out.db, k) :
                             get.response.status = HTTP_200_OK
               /\ \A get \in read_account(out.db, id) :
                      get.response.status = HTTP_404_NOT_FOUND
    /\ \A id \in deleted :
           \A get \in read_account(db, id) :
               get.response.status = HTTP_404_NOT_FOUND

\* a deleted id is read after a later account was created, another account
\* being stored
C5_Witness ==
    /\ \E id \in deleted : IsGetOf(id) /\ id < id_seq
    /\ response.status = HTTP_404_NOT_FOUND
    /\ accounts # <<>>

\* C6: DELETE is answered 204 in every state; on an id with no stored record
\* it leaves the store unchanged; a second DELETE of the same id leaves the
\* store as the first left it.
C6_DeleteIdempotent ==
    \A id \in PathIds :
        \A out \in delete_account(db, id) :
            /\ out.response.status = HTTP_204_NO_CONTENT
            /\ id \notin DOMAIN accounts => out.db = db
            /\ \A again \in delete_account(out.db, id) :
                   /\ again.response.status = HTTP_204_NO_CONTENT
                   /\ again.db = out.db

\* DELETE of an id that was deleted before found nothing to do
C6_Witness ==
    /\ request.method = "DELETE"
    /\ request.acct_id \in deleted
    /\ response.status = HTTP_204_NO_CONTENT
    /\ response.body = Message("not found, nothing to do", request.acct_id)
    /\ accounts # <<>>

\* C7: GET and PUT of an id with no stored record (never assigned, or
\* deleted) are answered 404 and leave the store unchanged; PUT answers 404
\* whatever its body is.
C7_NotFound ==
    \A id \in PathIds \ DOMAIN accounts :
        /\ \A out \in read_account(db, id) :
               out.response.status = HTTP_404_NOT_FOUND /\ out.db = db
        /\ \A req \in PutRequests :
               \A out \in upate_account(db, id, req, today) :
                   out.response.status = HTTP_404_NOT_FOUND /\ out.db = db

\* PUT of a deleted id was answered 404, another account being stored
C7_Witness ==
    /\ request.method = "PUT"
    /\ request.acct_id \in deleted
    /\ response.status = HTTP_404_NOT_FOUND
    /\ accounts # <<>>

\* C8: POST with Content-Type application/json and a body that lacks name,
\* email or address, or is no mapping, is answered 400 and leaves the store,
\* its key sequence included, unchanged.
C8_BadRequest ==
    \A body \in IncompleteBodies \cup NotMappings :
        \A out \in create_accounts(db, Json(body), today) :
            /\ out.response.status = HTTP_400_BAD_REQUEST
            /\ out.db = db

\* a POST without email was answered 400, an account being stored
C8_Witness ==
    /\ request.method = "POST"
    /\ response.status = HTTP_400_BAD_REQUEST
    /\ response.body.kind = "error"
    /\ response.body.missing = "email"
    /\ accounts # <<>>

\* C9: POST with no Content-Type, or one that is not exactly
\* application/json, is answered 415 and leaves the store unchanged, whether
\* its body is valid or not.
C9_UnsupportedMediaType ==
    \A req \in [headers : Headers \ {JsonHeaders}, body : Bodies] :
        \A out \in create_accounts(db, req, today) :
            /\ out.response.status = HTTP_415_UNSUPPORTED_MEDIA_TYPE
            /\ out.db = db

\* a POST was answered 415, an account being stored
C9_Witness ==
    /\ request.method = "POST"
    /\ response.status = HTTP_415_UNSUPPORTED_MEDIA_TYPE
    /\ accounts # <<>>

\* C10: no id is returned by two successful POSTs, also after its record was
\* deleted: the ids handed out so far are pairwise distinct, a POST that
\* succeeds returns an id that was never handed out, and the ids of the
\* stored records, as the list shows them, are pairwise distinct.
C10_UniqueIds ==
    /\ \A i, j \in DOMAIN issued : issued[i] = issued[j] => i = j
    /\ DOMAIN accounts \cup deleted \subseteq Range(issued)
    /\ \A req \in PostRequests :
           \A out \in create_accounts(db, req, today) :
               out.response.status = HTTP_201_CREATED =>
                   LET id == out.response.body.members["id"].n
                   IN  id \notin Range(issued) /\ id \notin deleted
    /\ \A out \in list_accounts(db) :
           LET items == out.response.body.items
           IN  \A i, j \in DOMAIN items :
                   items[i].members["id"] = items[j].members["id"] => i = j

\* an account was created after the record of an earlier id was deleted
C10_Witness ==
    /\ request.method = "POST"
    /\ response.status = HTTP_201_CREATED
    /\ deleted # {}
    /\ Len(issued) = 2

\* C11: PUT on a stored id with Content-Type application/json and a body that
\* lacks name, email or address, or is no mapping, is answered 400 and leaves
\* the record as it was: GET of that id answers after the PUT what it answered
\* before it, whatever deserialize assigned before it found a field missing.
C11_AsStated ==
    \A id \in DOMAIN accounts :
        \A body \in IncompleteBodies \cup NotMappings :
            \A out \in upate_account(db, id, Json(body), today) :
                /\ out.response.status = HTTP_400_BAD_REQUEST
                /\ {get.response : get \in read_account(out.db, id)}
                       = {get.response : get \in read_account(db, id)}

\* a PUT that lacked email was answered 400, and the record of its id has the
\* name of the rejected body beside a phone_number no body with that name
\* carries
C11_Witness ==
    /\ request.method = "PUT"
    /\ response.status = HTTP_400_BAD_REQUEST
    /\ response.body.kind = "error"
    /\ response.body.missing = "email"
    /\ request.acct_id \in DOMAIN accounts
    /\ accounts[request.acct_id].name = Ann
    /\ accounts[request.acct_id].phone_number = None

\* C12: with the steps of a PUT and a DELETE of one stored id interleaved in
\* any order, a DELETE that was answered 204 is not undone: once both
\* requests are answered the id has no record in the table, a later GET of it
\* is answered 404, whether the worker of the DELETE or the worker of the PUT
\* handles it, and no element of the list carries it.
C12_AsStated ==
    (/\ putting.pc = "done"
     /\ deleting.pc = "done"
     /\ deleting.found
     /\ putting.acct_id = deleting.acct_id) =>
        LET id == deleting.acct_id
        IN  /\ id \notin DOMAIN accounts
            /\ \A seen \in {db, Session_view(db, putting.account)} :
                   \A out \in read_account(seen, id) :
                       out.response.status = HTTP_404_NOT_FOUND
            /\ \A out \in list_accounts(db) :
                   \A i \in DOMAIN out.response.body.items :
                       out.response.body.items[i].members["id"] # Num(id)

\* PUT and DELETE of one id both found its record; the DELETE removed it and
\* was answered 204, and then the PUT, its body lacking email, was answered
\* 400: the row is gone from the table and the session of the PUT's worker
\* holds the instance with the name of the rejected body
C12_Witness ==
    /\ putting.pc = "done"
    /\ deleting.pc = "done"
    /\ putting.found
    /\ deleting.found
    /\ putting.acct_id = deleting.acct_id
    /\ request.method = "PUT"
    /\ response.status = HTTP_400_BAD_REQUEST
    /\ response.body.kind = "error"
    /\ response.body.missing = "email"
    /\ deleting.acct_id \in deleted
    /\ deleting.acct_id \notin DOMAIN accounts
    /\ putting.account # None
    /\ putting.account.name = Ann

=============================================================================
